---------------------------- MODULE Spec2Model ----------------------------
(***************************************************************************)
(* Model of the ImageOCRLatexUI plugin (src/imageocrlatex/imageocrlatexui  *)
(* .js): the toolbar button, the balloon form, the two chained network     *)
(* requests of _showForm and the transformation of the OCR response.       *)
(*                                                                         *)
(* Texts are sequences of one-character strings, so that String.replaceAll *)
(* is computed character by character as the engine computes it.           *)
(***************************************************************************)
EXTENDS Integers, Sequences, FiniteSets, TLC

(***************************************************************************)
(* Bounds of the model.                                                    *)
(***************************************************************************)
\* Button activations that may start a request cycle in one behaviour.
MaxCycles == 2
\* Longest math_text.data drawn for the transformation.
MaxTextLen == 3
\* Longest LaTeX fragment drawn for the transformation.
MaxFragLen == 2
\* Longest latex_maths.data list drawn for the transformation.
MaxFrags == 2

\* The characters "`" and "'", which the template patterns of replaceAll
\* use. A one-character string of a backtick cannot be written, as a
\* backtick in a string opens a quotation that runs to the next apostrophe;
\* it is cut out of the two-character string of both.
Apostrophe == "'"
Backtick == Head("`'")

(***************************************************************************)
(* Strings.                                                                *)
(***************************************************************************)
\* Characters the drawn texts and fragments are made of: "a" occurs in the
\* wrapper markup, "b" does not, "$" starts a replacement pattern.
Alphabet == {"a", "b", "$", Apostrophe}

\* `<span class="math-tex">`, the head of the template of line 197.
SpanOpen ==
    <<"<", "s", "p", "a", "n", " ", "c", "l", "a", "s", "s", "=", "\"",
      "m", "a", "t", "h", "-", "t", "e", "x", "\"", ">">>

\* `</span>`, the tail of the template of line 197.
SpanClose == <<"<", "/", "s", "p", "a", "n", ">">>

\* `<p>` and `</p>` of line 200.
POpen == <<"<", "p", ">">>
PClose == <<"<", "/", "p", ">">>

\* What the template literal of line 200 prints for an undefined result.
UndefinedText == <<"u", "n", "d", "e", "f", "i", "n", "e", "d">>

\* s[from .. to-1] with 0-based indices, as String.prototype.substring.
Substring(s, from, to) == SubSeq(s, from + 1, to)

\* Whether `search` occurs in `s` at 0-based position `pos`.
MatchesAt(s, search, pos) ==
    /\ pos + Len(search) <= Len(s)
    /\ \A k \in 1..Len(search) : s[pos + k] = search[k]

\* StringIndexOf of ECMA-262: the first position >= from where `search`
\* occurs in `s`, or -1.
StringIndexOf(s, search, from) ==
    LET found == {p \in from..(Len(s) - Len(search)) :
                     MatchesAt(s, search, p)}
    IN  IF found = {} THEN -1
        ELSE CHOOSE p \in found : \A q \in found : p <= q

\* The match positions String.prototype.replaceAll collects: it advances by
\* max(1, searchLength), so matches never overlap.
RECURSIVE MatchPositions(_, _, _)
MatchPositions(s, search, from) ==
    LET pos == StringIndexOf(s, search, from)
        advanceBy == IF Len(search) > 1 THEN Len(search) ELSE 1
    IN  IF pos = -1 THEN <<>>
        ELSE <<pos>> \o MatchPositions(s, search, pos + advanceBy)

\* GetSubstitution of ECMA-262 for a string pattern (no captures): in the
\* replacement template "$$" is "$", "$&" the match, "$" and a backtick the
\* text before the match, "$" and an apostrophe the text after it; any
\* other "$" stays as written.
RECURSIVE GetSubstitution(_, _, _, _, _)
GetSubstitution(matched, s, position, template, i) ==
    IF i > Len(template) THEN <<>>
    ELSE IF template[i] = "$" /\ i < Len(template)
              /\ template[i + 1] \in {"$", "&", Backtick, Apostrophe}
    THEN LET ref == template[i + 1]
             piece == CASE ref = "$" -> <<"$">>
                        [] ref = "&" -> matched
                        [] ref = Backtick -> Substring(s, 0, position)
                        [] ref = Apostrophe ->
                             Substring(s, position + Len(matched), Len(s))
         IN  piece \o GetSubstitution(matched, s, position, template, i + 2)
    ELSE <<template[i]>>
             \o GetSubstitution(matched, s, position, template, i + 1)

\* The result string of replaceAll built from the match positions: the text
\* between matches is preserved and each match gives way to its substitution.
RECURSIVE ReplaceAt(_, _, _, _, _)
ReplaceAt(s, search, template, positions, endOfLastMatch) ==
    IF positions = <<>> THEN Substring(s, endOfLastMatch, Len(s))
    ELSE LET p == Head(positions)
         IN  Substring(s, endOfLastMatch, p)
               \o GetSubstitution(search, s, p, template, 1)
               \o ReplaceAt(s, search, template, Tail(positions),
                            p + Len(search))

\* String.prototype.replaceAll( searchString, replaceString ).
ReplaceAll(s, search, template) ==
    ReplaceAt(s, search, template, MatchPositions(s, search, 0), 0)

\* [ ...new Set( latexes ) ]: the distinct fragments in order of first
\* appearance.
RECURSIVE DistinctLatexes(_)
DistinctLatexes(latexes) ==
    IF latexes = <<>> THEN <<>>
    ELSE LET init == DistinctLatexes(SubSeq(latexes, 1, Len(latexes) - 1))
             last == latexes[Len(latexes)]
         IN  IF \E k \in 1..Len(init) : init[k] = last THEN init
             ELSE Append(init, last)

\* The template of line 197 for one fragment.
SpanTemplate(latex) == SpanOpen \o latex \o SpanClose

\* The loop of lines 196-198 over the fragments still to replace.
RECURSIVE WrapLatexes(_, _)
WrapLatexes(result, latexes) ==
    IF latexes = <<>> THEN result
    ELSE WrapLatexes(ReplaceAll(result, Head(latexes),
                                SpanTemplate(Head(latexes))),
                     Tail(latexes))

\* Lines 192-200: the markup made of math_text.data and latex_maths.data.
TransformResult(text, latexes) ==
    POpen \o WrapLatexes(text, DistinctLatexes(latexes)) \o PClose


(***************************************************************************)
(* State.                                                                  *)
(***************************************************************************)
VARIABLES
    formCreated,      \* this._form (and this._balloon) are set
    balloon,          \* the views of the ContextualBalloon, the visible one last
    imageSelected,    \* an image widget is the selection of the editor
    altText,          \* the attribute of the image the command reads and writes
    fieldValue,       \* labeledInput.fieldView.element.value
    fieldViewValue,   \* labeledInput.fieldView.value
    previewHTML,      \* innerHTML of the ck-labeled-field-view-math-preview element
    cssTransitions,   \* the form's CSS transitions are enabled
    focus,            \* where the keyboard focus is
    positionStale,    \* the form is in the balloon at a position computed
                      \* before the image last moved
    cycles,           \* the request cycle of each button activation
    nStarted,         \* request cycles started so far
    destroyed,        \* destroy() has run
    jobsRun,          \* while a catch job is pending: the cycles whose
                      \* promise jobs have run since the handler threw
    lastOp,           \* the event handled last and its request cycle
    tText,            \* transformation alone: math_text.data
    tLatexes,         \* transformation alone: latex_maths.data
    tResult           \* transformation alone: the markup, once computed

uiVars == <<formCreated, balloon, imageSelected, altText, fieldValue,
            fieldViewValue, previewHTML, cssTransitions, focus,
            positionStale, cycles, nStarted, destroyed, jobsRun, lastOp>>
tVars == <<tText, tLatexes, tResult>>
vars == <<formCreated, balloon, imageSelected, altText, fieldValue,
          fieldViewValue, previewHTML, cssTransitions, focus, positionStale,
          cycles, nStarted, destroyed, jobsRun, lastOp, tText, tLatexes,
          tResult>>

\* The value the image has before any submit: the address the download uses.
ImageUrl == <<"u">>

\* command.value while no image is selected.
NoValue == <<"#undefined">>

\* What the user may type into the field.
TypedTexts == {<<"b">>}

Op(name, cycle) == [name |-> name, cycle |-> cycle]

\* A field of the response body: absent, an object without data, or an
\* object with data.
Missing == [kind |-> "missing", data |-> <<>>]
NoData == [kind |-> "nodata", data |-> <<>>]
Data(d) == [kind |-> "data", data |-> d]

\* The body of a request cycle that has not received one.
NoBody == [math_text |-> Missing, latex_maths |-> Missing]

\* A request cycle: where it stands and what it has done so far. url is
\* imgUrl of line 171; body, shown and overTyped record the response the
\* cycle populated the field from, the text it put there, and whether it
\* overwrote text the user had typed.
IdleCycle ==
    [stage |-> "idle", url |-> NoValue, gets |-> 0, posts |-> 0,
     alerts |-> 0, added |-> FALSE, populated |-> FALSE, failure |-> "none",
     body |-> NoBody, shown |-> <<>>, overTyped |-> FALSE]

\* The request cycles: one promise chain per activation.
Cycles == 1..MaxCycles

\* Whether the success handler of a cycle has thrown and the job of its
\* catch handler (lines 228-231) is still in the job queue. The queue is
\* emptied before the next event is dispatched, so no listener runs then.
CatchPending == \E c \in Cycles : cycles[c].stage = "thrown"

\* A promise job of cycle c runs. While a catch job is pending, the only
\* jobs that can run before it are those queued before the throw, at most
\* one of each other cycle; the next job of such a cycle needs a response
\* from the network, which is delivered by a later task.
JobRuns(c) ==
    jobsRun' = IF \E d \in Cycles : cycles'[d].stage = "thrown"
               THEN jobsRun \cup {c}
               ELSE {}

(***************************************************************************)
(* The command 'imageOCRLatex' (imageocrlatexcommand.js).                  *)
(***************************************************************************)
\* command.value: the selected image's attribute.
CommandValue == IF imageSelected THEN altText ELSE NoValue

\* command.isEnabled: true only while an image widget is selected.
CommandIsEnabled == imageSelected

\* editor.execute( 'imageOCRLatex', { newValue } ): writes the attribute of
\* the selected image, and does nothing while none is selected.
CommandExecute(newValue) ==
    altText' = IF CommandIsEnabled THEN newValue ELSE altText

(***************************************************************************)
(* The balloon.                                                            *)
(***************************************************************************)
\* ContextualBalloon.hasView
HasView(view) == \E k \in 1..Len(balloon) : balloon[k] = view

\* ContextualBalloon.visibleView
VisibleView == IF balloon = <<>> THEN "none" ELSE balloon[Len(balloon)]

\* ContextualBalloon.remove
BalloonRemove(view) == SelectSeq(balloon, LAMBDA v : v # view)

\* ContextualBalloon.add: the added view becomes the visible one.
BalloonAdd(view) == Append(balloon, view)

\* get _isVisible
IsVisible == formCreated /\ VisibleView = "form"

\* Mutant of IsInBalloon: the getter tests the visible view as _isVisible
\* does.
IsInBalloonAsVisible == formCreated /\ VisibleView = "form"

\* get _isInBalloon
IsInBalloon == formCreated /\ HasView("form")

\* Mutant of ButtonIsEnabled: the binding of line 77 is left out and the
\* button keeps the ButtonView's default.
ButtonAlwaysEnabled == TRUE

\* view.bind( 'isEnabled' ).to( command, 'isEnabled' )
ButtonIsEnabled == CommandIsEnabled

(***************************************************************************)
(* _hideForm                                                               *)
(***************************************************************************)
HideForm(focusEditable) ==
    IF ~IsInBalloon
    THEN UNCHANGED <<balloon, focus, positionStale>>
    ELSE /\ balloon' = BalloonRemove("form")
         /\ positionStale' = FALSE
         /\ focus' = IF focusEditable THEN "editable"
                     ELSE IF focus = "form" THEN "none"
                     ELSE focus

(***************************************************************************)
(* The listeners of _createForm.                                           *)
(***************************************************************************)
\* repositionContextualBalloon( editor ) of ../image/ui/utils: the balloon
\* is moved to where the selected image is now.
RepositionContextualBalloon == positionStale' = FALSE

\* Mutant of UpdateListener: the listener only repositions and never hides.
UpdateListenerNeverHides(selected) ==
    /\ UNCHANGED <<balloon, focus>>
    /\ IF selected /\ IsVisible THEN RepositionContextualBalloon
       ELSE positionStale' = IsInBalloon

\* The 'update' listener with the selection as it is after the event. The
\* rendering that fires the event may have moved the image: a form that
\* stays in the balloon without being the visible view keeps the position
\* it had.
UpdateListener(selected) ==
    IF ~selected THEN HideForm(TRUE)
    ELSE /\ UNCHANGED <<balloon, focus>>
         /\ IF IsVisible THEN RepositionContextualBalloon
            ELSE positionStale' = IsInBalloon

Submit ==
    /\ ~destroyed /\ ~CatchPending /\ IsVisible
    /\ CommandExecute(fieldValue)
    /\ HideForm(TRUE)
    /\ lastOp' = Op("submit", 0)
    /\ UNCHANGED <<formCreated, imageSelected, fieldValue, fieldViewValue,
                   previewHTML, cssTransitions, cycles, nStarted, destroyed,
                   jobsRun>>

\* Mutant of Cancel: the cancel listener executes the command as the submit
\* listener does.
CancelCommits ==
    /\ ~destroyed /\ ~CatchPending /\ IsVisible
    /\ CommandExecute(fieldValue)
    /\ HideForm(TRUE)
    /\ lastOp' = Op("cancel", 0)
    /\ UNCHANGED <<formCreated, imageSelected, fieldValue, fieldViewValue,
                   previewHTML, cssTransitions, cycles, nStarted, destroyed,
                   jobsRun>>

Cancel ==
    /\ ~destroyed /\ ~CatchPending /\ IsVisible
    /\ HideForm(TRUE)
    /\ lastOp' = Op("cancel", 0)
    /\ UNCHANGED <<formCreated, imageSelected, altText, fieldValue,
                   fieldViewValue, previewHTML, cssTransitions, cycles,
                   nStarted, destroyed, jobsRun>>

\* Mutant of Esc: the Esc listener executes the command before it hides the
\* form.
EscCommits ==
    /\ ~destroyed /\ ~CatchPending /\ IsVisible
    /\ CommandExecute(fieldValue)
    /\ HideForm(TRUE)
    /\ lastOp' = Op("esc", 0)
    /\ UNCHANGED <<formCreated, imageSelected, fieldValue, fieldViewValue,
                   previewHTML, cssTransitions, cycles, nStarted, destroyed,
                   jobsRun>>

Esc ==
    /\ ~destroyed /\ ~CatchPending /\ IsVisible
    /\ HideForm(TRUE)
    /\ lastOp' = Op("esc", 0)
    /\ UNCHANGED <<formCreated, imageSelected, altText, fieldValue,
                   fieldViewValue, previewHTML, cssTransitions, cycles,
                   nStarted, destroyed, jobsRun>>

\* clickOutsideHandler: the callback runs only while the activator holds.
ClickOutside ==
    /\ ~destroyed /\ ~CatchPending /\ IsVisible
    /\ HideForm(FALSE)
    /\ lastOp' = Op("clickOutside", 0)
    /\ UNCHANGED <<formCreated, imageSelected, altText, fieldValue,
                   fieldViewValue, previewHTML, cssTransitions, cycles,
                   nStarted, destroyed, jobsRun>>

\* editor.ui fires 'update'; the listener exists once the form is created.
UiUpdate ==
    /\ ~destroyed /\ ~CatchPending /\ formCreated
    /\ UpdateListener(imageSelected)
    /\ lastOp' = Op("update", 0)
    /\ UNCHANGED <<formCreated, imageSelected, altText, fieldValue,
                   fieldViewValue, previewHTML, cssTransitions, cycles,
                   nStarted, destroyed, jobsRun>>

(***************************************************************************)
(* The editor around the plugin.                                           *)
(***************************************************************************)
\* The selection moves onto or off the image; the editor renders and fires
\* 'update'.
SetSelection(selected) ==
    /\ ~destroyed /\ ~CatchPending /\ imageSelected # selected
    /\ imageSelected' = selected
    /\ IF formCreated THEN UpdateListener(selected)
       ELSE UNCHANGED <<balloon, focus, positionStale>>
    /\ lastOp' = Op(IF selected THEN "select" ELSE "deselect", 0)
    /\ UNCHANGED <<formCreated, altText, fieldValue, fieldViewValue,
                   previewHTML, cssTransitions, cycles, nStarted, destroyed,
                   jobsRun>>

\* The user types into the field of the visible form.
UserType(text) ==
    /\ ~destroyed /\ ~CatchPending /\ IsVisible
    /\ fieldValue' = text
    /\ focus' = "form"
    /\ lastOp' = Op("type", 0)
    /\ UNCHANGED <<formCreated, balloon, imageSelected, altText,
                   fieldViewValue, previewHTML, cssTransitions, cycles,
                   nStarted, destroyed, positionStale, jobsRun>>

\* Another plugin shows its view in the shared balloon.
OtherAdd ==
    /\ ~destroyed /\ ~CatchPending /\ ~HasView("other")
    /\ balloon' = BalloonAdd("other")
    /\ focus' = IF focus = "form" THEN "none" ELSE focus
    /\ lastOp' = Op("otherAdd", 0)
    /\ UNCHANGED <<formCreated, imageSelected, altText, fieldValue,
                   fieldViewValue, previewHTML, cssTransitions, cycles,
                   nStarted, destroyed, positionStale, jobsRun>>

\* The other plugin removes its view.
OtherRemove ==
    /\ ~destroyed /\ ~CatchPending /\ HasView("other")
    /\ balloon' = BalloonRemove("other")
    /\ lastOp' = Op("otherRemove", 0)
    /\ UNCHANGED <<formCreated, imageSelected, altText, fieldValue,
                   fieldViewValue, previewHTML, cssTransitions, focus,
                   cycles, nStarted, destroyed, positionStale, jobsRun>>

\* destroy(): the listeners stop and the form is destroyed; the pending
\* promise callbacks are not touched.
Destroy ==
    /\ ~destroyed /\ ~CatchPending
    /\ destroyed' = TRUE
    /\ lastOp' = Op("destroy", 0)
    /\ UNCHANGED <<formCreated, balloon, imageSelected, altText, fieldValue,
                   fieldViewValue, previewHTML, cssTransitions, focus,
                   cycles, nStarted, positionStale, jobsRun>>

(***************************************************************************)
(* The toolbar button and _showForm up to the download request.            *)
(***************************************************************************)
\* Mutant of ShowForm: the early return of lines 160-162 is left out.
ShowFormUnguarded ==
    /\ nStarted < MaxCycles
    /\ formCreated' = TRUE
    /\ nStarted' = nStarted + 1
    /\ cycles' = [cycles EXCEPT ![nStarted + 1] =
                     [IdleCycle EXCEPT !.stage = "get",
                                       !.url = CommandValue,
                                       !.gets = 1]]

\* Mutant of ShowForm: an activation is rejected while a request cycle is
\* still waiting for a response.
ShowFormSingleFlight ==
    IF IsVisible \/ \E c \in Cycles : cycles[c].stage \in {"get", "post"}
    THEN UNCHANGED <<formCreated, cycles, nStarted>>
    ELSE /\ nStarted < MaxCycles
         /\ formCreated' = TRUE
         /\ nStarted' = nStarted + 1
         /\ cycles' = [cycles EXCEPT ![nStarted + 1] =
                          [IdleCycle EXCEPT !.stage = "get",
                                            !.url = CommandValue,
                                            !.gets = 1]]

\* _showForm, lines 159-173: nothing while the form is the visible view;
\* otherwise the form is created if need be and a request cycle starts with
\* the download of command.value.
ShowForm ==
    IF IsVisible
    THEN UNCHANGED <<formCreated, cycles, nStarted>>
    ELSE /\ nStarted < MaxCycles
         /\ formCreated' = TRUE
         /\ nStarted' = nStarted + 1
         /\ cycles' = [cycles EXCEPT ![nStarted + 1] =
                          [IdleCycle EXCEPT !.stage = "get",
                                            !.url = CommandValue,
                                            !.gets = 1]]

\* A click on the toolbar button: the ButtonView fires 'execute' only while
\* it is enabled, and the listener of lines 80-82 calls _showForm.
ButtonClick ==
    /\ ~destroyed /\ ~CatchPending
    /\ IF ButtonIsEnabled THEN ShowForm
       ELSE UNCHANGED <<formCreated, cycles, nStarted>>
    /\ lastOp' = Op("click", IF nStarted' # nStarted THEN nStarted' ELSE 0)
    /\ UNCHANGED <<balloon, imageSelected, altText, fieldValue,
                   fieldViewValue, previewHTML, cssTransitions, focus,
                   destroyed, positionStale, jobsRun>>

(***************************************************************************)
(* _downloadImage and the handlers of its promise.                         *)
(***************************************************************************)
\* How the download can fail: a status that is not 2xx, or fetch or the
\* reading of the body rejecting.
DownloadFailures == {"status", "network"}

\* Lines 174-181: the blob is read, the FormData built and the POST sent.
DownloadSucceeded(c) ==
    /\ cycles[c].stage = "get" /\ c \notin jobsRun
    /\ cycles' = [cycles EXCEPT ![c].stage = "post", ![c].posts = @ + 1]
    /\ JobRuns(c)
    /\ lastOp' = Op("downloaded", c)
    /\ UNCHANGED <<formCreated, balloon, imageSelected, altText, fieldValue,
                   fieldViewValue, previewHTML, cssTransitions, focus,
                   nStarted, destroyed, positionStale>>

\* Mutant of DownloadFailed: _downloadImage does not throw on a response
\* that is not ok, so the POST is sent with whatever body was read.
DownloadFailedStillPosts(c, kind) ==
    /\ cycles[c].stage = "get" /\ c \notin jobsRun
    /\ cycles' = [cycles EXCEPT ![c].stage = "post", ![c].posts = @ + 1,
                                ![c].failure = "download"]
    /\ JobRuns(c)
    /\ lastOp' = Op("downloadFailed", c)
    /\ UNCHANGED <<formCreated, balloon, imageSelected, altText, fieldValue,
                   fieldViewValue, previewHTML, cssTransitions, focus,
                   nStarted, destroyed, positionStale>>

\* Lines 233-236: the rejection of _downloadImage ends in window.alert.
DownloadFailed(c, kind) ==
    /\ cycles[c].stage = "get" /\ c \notin jobsRun
    /\ cycles' = [cycles EXCEPT ![c].stage = "done", ![c].alerts = @ + 1,
                                ![c].failure = "download"]
    /\ JobRuns(c)
    /\ lastOp' = Op("downloadFailed", c)
    /\ UNCHANGED <<formCreated, balloon, imageSelected, altText, fieldValue,
                   fieldViewValue, previewHTML, cssTransitions, focus,
                   nStarted, destroyed, positionStale>>

(***************************************************************************)
(* _sendFormData and the handlers of its promise.                          *)
(***************************************************************************)
\* How the OCR request can fail: a status that is not 2xx, fetch rejecting,
\* or a body that is not JSON.
OcrFailures == {"status", "network", "unparsable"}

\* The parsed bodies of a 2xx response the model draws from.
OcrBodies ==
    { [math_text |-> Data(<<"a", "b">>),
       latex_maths |-> Data(<< <<"b">>, <<"b">> >>)],
      [math_text |-> Data(<<"a">>), latex_maths |-> Data(<<>>)],
      [math_text |-> Data(<<"a">>), latex_maths |-> Missing],
      [math_text |-> Missing, latex_maths |-> Data(<<>>)],
      [math_text |-> NoData, latex_maths |-> Data(<< <<"b">> >>)],
      [math_text |-> NoData, latex_maths |-> NoData] }

\* Whether both fields of the contract are there.
WellFormed(body) ==
    body.math_text.kind = "data" /\ body.latex_maths.kind = "data"

\* [ ...new Set( latexes ) ] of line 196; new Set( undefined ) is empty.
BodyLatexes(body) == DistinctLatexes(body.latex_maths.data)

\* Whether lines 192-198 throw a TypeError: a property of undefined is read
\* (data.latex_maths.data, data.math_text.data) or replaceAll is called on
\* an undefined result.
HandlerThrows(body) ==
    \/ body.latex_maths.kind = "missing"
    \/ body.math_text.kind = "missing"
    \/ body.math_text.kind = "nodata" /\ BodyLatexes(body) # <<>>

\* Lines 192-200 for a body they do not throw on.
BodyResult(body) ==
    IF body.math_text.kind = "data"
    THEN TransformResult(body.math_text.data, body.latex_maths.data)
    ELSE POpen \o UndefinedText \o PClose

\* window.MathJax.typeset( [ newElement ] ) of line 215 when it returns: the
\* library, which the page loads, has rewritten the preview element in
\* place.
MathJaxTypeset(html) == <<"#typeset">> \o html

\* Line 223: what the input element holds after the population.
PopulatedValue(result) == IF result # <<>> THEN result ELSE <<>>

\* Mutant of OcrFailed: the form is put into the balloon on the failure
\* path as well.
OcrFailedShowsForm(c, kind) ==
    /\ cycles[c].stage = "post" /\ c \notin jobsRun
    /\ balloon' = IF ~IsInBalloon THEN BalloonAdd("form") ELSE balloon
    /\ positionStale' = IF ~IsInBalloon THEN FALSE ELSE positionStale
    /\ cycles' = [cycles EXCEPT ![c].stage = "done", ![c].alerts = @ + 1,
                                ![c].added = ~IsInBalloon,
                                ![c].failure = "ocr"]
    /\ JobRuns(c)
    /\ lastOp' = Op("ocrFailed", c)
    /\ UNCHANGED <<formCreated, imageSelected, altText, fieldValue,
                   fieldViewValue, previewHTML, cssTransitions, focus,
                   nStarted, destroyed>>

\* Mutant of OcrFailed: the inner handler alerts and throws again and the
\* inner chain is returned, so the handler of lines 233-236 alerts as well.
OcrFailedAlertsTwice(c, kind) ==
    /\ cycles[c].stage = "post" /\ c \notin jobsRun
    /\ cycles' = [cycles EXCEPT ![c].stage = "done", ![c].alerts = @ + 2,
                                ![c].failure = "ocr"]
    /\ JobRuns(c)
    /\ lastOp' = Op("ocrFailed", c)
    /\ UNCHANGED <<formCreated, balloon, imageSelected, altText, fieldValue,
                   fieldViewValue, previewHTML, cssTransitions, focus,
                   nStarted, destroyed, positionStale>>

\* Lines 228-231 after a rejection of _sendFormData: window.alert.
OcrFailed(c, kind) ==
    /\ cycles[c].stage = "post" /\ c \notin jobsRun
    /\ cycles' = [cycles EXCEPT ![c].stage = "done", ![c].alerts = @ + 1,
                                ![c].failure = "ocr"]
    /\ JobRuns(c)
    /\ lastOp' = Op("ocrFailed", c)
    /\ UNCHANGED <<formCreated, balloon, imageSelected, altText, fieldValue,
                   fieldViewValue, previewHTML, cssTransitions, focus,
                   nStarted, destroyed, positionStale>>

\* How window.MathJax.typeset of line 215 can end: it returns, or it throws
\* (also when the page has not loaded the library).
Typesets == {"ok", "throws"}

\* Whether line 201 finds the .ck-labeled-field-view element around the
\* input: the form view (ui/textocrlatexformview.js) renders its input
\* inside one.
LabeledFieldViewFound == TRUE

\* Whether lines 183-227 throw: on reading the body, or in the typeset of
\* the preview.
SuccessHandlerThrows(body, typeset) ==
    \/ HandlerThrows(body)
    \/ LabeledFieldViewFound /\ typeset = "throws"

\* The handler of lines 182-227 for a parsed 2xx body: the form is added to
\* the balloon unless it is in it, then the body is read, the preview
\* written and typeset, the field assigned and selected, which moves the
\* focus to the input of a form that is displayed. An error thrown on the
\* way ends the handler there, with what it has done so far; the catch
\* handler of lines 228-231 runs later, as a job of its own.
SuccessHandler(c, body, typeset) ==
    /\ balloon' = IF ~IsInBalloon THEN BalloonAdd("form") ELSE balloon
    /\ positionStale' = IF ~IsInBalloon THEN FALSE ELSE positionStale
    /\ IF HandlerThrows(body)
       THEN /\ cssTransitions' = FALSE
            /\ cycles' = [cycles EXCEPT ![c].stage = "thrown",
                                        ![c].added = ~IsInBalloon,
                                        ![c].failure = "malformed"]
            /\ UNCHANGED <<fieldValue, fieldViewValue, previewHTML, focus>>
       ELSE IF SuccessHandlerThrows(body, typeset)
       THEN /\ previewHTML' = BodyResult(body)
            /\ cssTransitions' = FALSE
            /\ cycles' = [cycles EXCEPT ![c].stage = "thrown",
                                        ![c].added = ~IsInBalloon,
                                        ![c].failure = "typeset"]
            /\ UNCHANGED <<fieldValue, fieldViewValue, focus>>
       ELSE /\ previewHTML' = IF LabeledFieldViewFound
                              THEN MathJaxTypeset(BodyResult(body))
                              ELSE previewHTML
            /\ fieldViewValue' = PopulatedValue(BodyResult(body))
            /\ fieldValue' = PopulatedValue(BodyResult(body))
            /\ focus' = IF ~IsInBalloon \/ IsVisible THEN "form" ELSE focus
            /\ cssTransitions' = TRUE
            /\ cycles' = [cycles EXCEPT ![c].stage = "done",
                                        ![c].added = ~IsInBalloon,
                                        ![c].populated = TRUE,
                                        ![c].body = body,
                                        ![c].shown = fieldValue',
                                        ![c].overTyped =
                                            fieldValue # fieldViewValue]

\* The name of the step that handles a response: "ocrResponse" when the body
\* has both fields and the handler runs to its end.
ResponseOp(c, body, typeset) ==
    Op(IF ~WellFormed(body) THEN "ocrMalformed"
       ELSE IF SuccessHandlerThrows(body, typeset) THEN "ocrTypesetThrew"
       ELSE "ocrResponse", c)

\* Mutant of OcrResponded: a response that arrives while no image is
\* selected is dropped.
OcrRespondedIfSelected(c, body, typeset) ==
    /\ cycles[c].stage = "post" /\ c \notin jobsRun
    /\ IF ~imageSelected
       THEN /\ cycles' = [cycles EXCEPT ![c].stage = "done",
                                        ![c].body = body]
            /\ UNCHANGED <<balloon, positionStale, fieldValue, focus,
                           fieldViewValue, previewHTML, cssTransitions>>
       ELSE SuccessHandler(c, body, typeset)
    /\ JobRuns(c)
    /\ lastOp' = ResponseOp(c, body, typeset)
    /\ UNCHANGED <<formCreated, imageSelected, altText, nStarted, destroyed>>

\* Mutant of OcrResponded: the response of a cycle is handled only when no
\* later activation has started; otherwise it is dropped.
OcrRespondedLatestOnly(c, body, typeset) ==
    /\ cycles[c].stage = "post" /\ c \notin jobsRun
    /\ IF c # nStarted
       THEN /\ cycles' = [cycles EXCEPT ![c].stage = "done",
                                        ![c].body = body]
            /\ UNCHANGED <<balloon, positionStale, fieldValue, focus,
                           fieldViewValue, previewHTML, cssTransitions>>
       ELSE SuccessHandler(c, body, typeset)
    /\ JobRuns(c)
    /\ lastOp' = ResponseOp(c, body, typeset)
    /\ UNCHANGED <<formCreated, imageSelected, altText, nStarted, destroyed>>

\* The promise of _sendFormData resolves with a parsed 2xx body and the
\* handler of lines 182-227 runs.
OcrResponded(c, body, typeset) ==
    /\ cycles[c].stage = "post" /\ c \notin jobsRun
    /\ SuccessHandler(c, body, typeset)
    /\ JobRuns(c)
    /\ lastOp' = ResponseOp(c, body, typeset)
    /\ UNCHANGED <<formCreated, imageSelected, altText, nStarted, destroyed>>

\* Lines 228-231 after the success handler has thrown: the catch handler
\* runs as a job of its own and calls window.alert.
OcrThrowCaught(c) ==
    /\ cycles[c].stage = "thrown"
    /\ cycles' = [cycles EXCEPT ![c].stage = "done", ![c].alerts = @ + 1]
    /\ JobRuns(c)
    /\ lastOp' = Op("ocrCaught", c)
    /\ UNCHANGED <<formCreated, balloon, imageSelected, altText, fieldValue,
                   fieldViewValue, previewHTML, cssTransitions, focus,
                   nStarted, destroyed, positionStale>>

(***************************************************************************)
(* The plugin in the editor.                                               *)
(***************************************************************************)
Init ==
    /\ formCreated = FALSE
    /\ balloon = <<>>
    /\ imageSelected = FALSE
    /\ altText = ImageUrl
    /\ fieldValue = <<>>
    /\ fieldViewValue = <<>>
    /\ previewHTML = <<>>
    /\ cssTransitions = TRUE
    /\ focus = "editable"
    /\ positionStale = FALSE
    /\ cycles = [c \in Cycles |-> IdleCycle]
    /\ nStarted = 0
    /\ destroyed = FALSE
    /\ jobsRun = {}
    /\ lastOp = Op("init", 0)
    /\ tText = <<>>
    /\ tLatexes = <<>>
    /\ tResult = <<>>

Next ==
    \/ ButtonClick /\ UNCHANGED tVars
    \/ \E c \in Cycles : DownloadSucceeded(c) /\ UNCHANGED tVars
    \/ \E c \in Cycles, kind \in DownloadFailures :
           DownloadFailed(c, kind) /\ UNCHANGED tVars
    \/ \E c \in Cycles, kind \in OcrFailures :
           OcrFailed(c, kind) /\ UNCHANGED tVars
    \/ \E c \in Cycles, body \in OcrBodies, typeset \in Typesets :
           OcrResponded(c, body, typeset) /\ UNCHANGED tVars
    \/ \E c \in Cycles : OcrThrowCaught(c) /\ UNCHANGED tVars
    \/ Submit /\ UNCHANGED tVars
    \/ Cancel /\ UNCHANGED tVars
    \/ Esc /\ UNCHANGED tVars
    \/ ClickOutside /\ UNCHANGED tVars
    \/ UiUpdate /\ UNCHANGED tVars
    \/ \E selected \in BOOLEAN : SetSelection(selected) /\ UNCHANGED tVars
    \/ \E text \in TypedTexts : UserType(text) /\ UNCHANGED tVars
    \/ OtherAdd /\ UNCHANGED tVars
    \/ OtherRemove /\ UNCHANGED tVars
    \/ Destroy /\ UNCHANGED tVars

Spec == Init /\ [][Next]_vars

\* A pending request of the cycle resolves or rejects and the handler of its
\* promise runs.
NetworkResolves(c) ==
    \/ DownloadSucceeded(c) /\ UNCHANGED tVars
    \/ \E kind \in DownloadFailures : DownloadFailed(c, kind) /\ UNCHANGED tVars
    \/ \E kind \in OcrFailures : OcrFailed(c, kind) /\ UNCHANGED tVars
    \/ \E body \in OcrBodies, typeset \in Typesets :
           OcrResponded(c, body, typeset) /\ UNCHANGED tVars
    \/ OcrThrowCaught(c) /\ UNCHANGED tVars

\* The plugin with a network in which every request eventually resolves or
\* rejects; the promise callbacks then run, whatever the user does.
FairSpec == Spec /\ \A c \in Cycles : WF_vars(NetworkResolves(c))

(***************************************************************************)
(* The transformation alone, over every text and fragment list within the  *)
(* bounds.                                                                 *)
(***************************************************************************)
SeqsUpTo(S, n) == UNION {[1..k -> S] : k \in 0..n}

\* The fragments drawn: not empty.
Fragments == SeqsUpTo(Alphabet, MaxFragLen) \ {<<>>}

InitTransform ==
    /\ formCreated = FALSE
    /\ balloon = <<>>
    /\ imageSelected = FALSE
    /\ altText = ImageUrl
    /\ fieldValue = <<>>
    /\ fieldViewValue = <<>>
    /\ previewHTML = <<>>
    /\ cssTransitions = TRUE
    /\ focus = "editable"
    /\ positionStale = FALSE
    /\ cycles = [c \in Cycles |-> IdleCycle]
    /\ nStarted = 0
    /\ destroyed = FALSE
    /\ jobsRun = {}
    /\ lastOp = Op("init", 0)
    /\ tText \in SeqsUpTo(Alphabet, MaxTextLen)
    /\ tLatexes \in SeqsUpTo(Fragments, MaxFrags)
    /\ tResult = <<>>

\* Lines 192-200 applied to the drawn response.
ApplyTransform ==
    /\ tResult = <<>>
    /\ tResult' = TransformResult(tText, tLatexes)
    /\ UNCHANGED <<tText, tLatexes>>
    /\ UNCHANGED uiVars

NextTransform == ApplyTransform

SpecTransform == InitTransform /\ [][NextTransform]_vars

(***************************************************************************)
(* Properties.                                                             *)
(***************************************************************************)
\* The events that call _hideForm.
HideOps ==
    {"submit", "cancel", "esc", "clickOutside", "update", "select",
     "deselect"}

\* C1: in every step that handles a failed download or a failed OCR request
\* of a request cycle, one alert is raised for the cycle and the balloon is
\* left as it is, so the form is not added; the cycle is then done, and a
\* cycle that is done does nothing further.
C1_FailureAlertsAndNeverShows ==
    [][\A c \in Cycles :
          /\ lastOp' \in {Op("downloadFailed", c), Op("ocrFailed", c)}
                => /\ cycles'[c].alerts = cycles[c].alerts + 1
                   /\ balloon' = balloon
                   /\ ~cycles'[c].added
                   /\ ~cycles'[c].populated
                   /\ cycles'[c].stage = "done"
          /\ cycles[c].stage = "done" => cycles'[c] = cycles[c]]_vars

\* C1 witness: the OCR request of a cycle has just failed, its alert is
\* raised and the form is not in the balloon.
C1_Witness ==
    \E c \in Cycles :
        /\ lastOp = Op("ocrFailed", c)
        /\ cycles[c].failure = "ocr"
        /\ cycles[c].alerts = 1
        /\ ~cycles[c].added
        /\ ~IsInBalloon

\* C2: every submit writes the text the field holds at that moment as the
\* alt-text and leaves the form out of the balloon.
C2_SubmitCommitsFieldAndHides ==
    [][lastOp'.name = "submit"
          => altText' = fieldValue /\ ~IsInBalloon']_vars

\* C3: every cancel, Esc and click outside leaves the form out of the
\* balloon and the alt-text as it was.
C3_DismissKeepsAltText ==
    [][lastOp'.name \in {"cancel", "esc", "clickOutside"}
          => ~IsInBalloon' /\ altText' = altText]_vars

\* C3 witness: the form has just been cancelled while the field held typed
\* text that is not the alt-text.
C3_Witness ==
    /\ lastOp.name = "cancel"
    /\ fieldValue \in TypedTexts
    /\ altText # fieldValue
    /\ ~IsInBalloon

\* C4: whenever a response handler puts the form into the balloon, the field
\* then holds the command's value.
C4_OpenedFieldIsCommandValue ==
    [][(lastOp'.name \in {"ocrResponse", "ocrMalformed"}
          /\ ~IsInBalloon /\ IsInBalloon')
          => fieldValue' = CommandValue']_vars

\* C5: two request cycles that downloaded the same value and received the
\* same response put the same text into the field, also when the second
\* overwrote what the user had typed; and whenever the handler of a response
\* puts the form into the balloon, the field does not hold typed text.
C5_ReopenShowsSameContent ==
    /\ [](/\ \A c1, c2 \in Cycles :
                (/\ cycles[c1].populated /\ cycles[c2].populated
                 /\ cycles[c1].url = cycles[c2].url
                 /\ cycles[c1].body = cycles[c2].body)
                   => cycles[c1].shown = cycles[c2].shown
          /\ \A c \in Cycles :
                cycles[c].populated => cycles[c].shown \notin TypedTexts)
    /\ [][(~IsInBalloon /\ IsInBalloon') => fieldValue' \notin TypedTexts]_vars

\* C6: while no image is selected the button is disabled, and a click on it
\* starts no request, creates and shows no form and writes no alt-text.
C6_NoImageNoEffect ==
    /\ [](~imageSelected => ~ButtonIsEnabled)
    /\ [][(lastOp'.name = "click" /\ ~imageSelected)
             => UNCHANGED <<formCreated, balloon, altText, fieldValue,
                           fieldViewValue, previewHTML, cycles,
                           nStarted>>]_vars

\* C6 witness: the button has just been clicked while no image was selected
\* although a form exists.
C6_Witness ==
    /\ lastOp.name = "click"
    /\ ~imageSelected
    /\ formCreated

\* How often `search` occurs in `s`, counted as replaceAll finds matches:
\* from the left, without overlap.
CountOccurrences(s, search) == Len(MatchPositions(s, search, 0))

\* The fragments of a list as a set.
FragmentSet(latexes) == {latexes[k] : k \in 1..Len(latexes)}

\* C7: the markup is <p>...</p>; for every fragment of the list, whatever
\* its multiplicity in the list, the markup holds as many wrapped copies of
\* the fragment as the text holds occurrences of it; and when no fragment
\* occurs in the text the markup is <p>text</p>.
C7_EveryOccurrenceWrappedOnce ==
    tResult # <<>> =>
        LET inner == SubSeq(tResult, Len(POpen) + 1,
                            Len(tResult) - Len(PClose))
        IN  /\ tResult = POpen \o inner \o PClose
            /\ \A f \in FragmentSet(tLatexes) :
                  CountOccurrences(inner, SpanOpen \o f \o SpanClose)
                      = CountOccurrences(tText, f)
            /\ (\A f \in FragmentSet(tLatexes) :
                    CountOccurrences(tText, f) = 0)
                  => tResult = POpen \o tText \o PClose

\* Whether the markup `s` holds a math-tex span inside a math-tex span: two
\* opening tags with no closing tag between them.
NestedSpan(s) ==
    LET opens == {p \in 0..Len(s) : MatchesAt(s, SpanOpen, p)}
        closes == {p \in 0..Len(s) : MatchesAt(s, SpanClose, p)}
    IN  \E p, q \in opens :
            p < q /\ ~\E r \in closes : p < r /\ r < q

\* The origin of each character after one replaceAll: "t" for a character
\* of the text that was preserved, "m" for one a replacement inserted.
RECURSIVE OriginsAt(_, _, _, _, _, _)
OriginsAt(s, origins, search, template, positions, endOfLastMatch) ==
    IF positions = <<>> THEN Substring(origins, endOfLastMatch, Len(s))
    ELSE LET p == Head(positions)
             inserted == GetSubstitution(search, s, p, template, 1)
         IN  Substring(origins, endOfLastMatch, p)
               \o [k \in 1..Len(inserted) |-> "m"]
               \o OriginsAt(s, origins, search, template, Tail(positions),
                            p + Len(search))

\* Whether a replaceAll of `search` in `s` replaces an inserted character,
\* or, for the empty fragment, inserts between two inserted characters.
TouchesInserted(s, origins, search) ==
    LET positions == MatchPositions(s, search, 0)
    IN  \E j \in 1..Len(positions) :
            LET p == positions[j]
            IN  IF search = <<>>
                THEN /\ 0 < p /\ p < Len(s)
                     /\ origins[p] = "m" /\ origins[p + 1] = "m"
                ELSE \E k \in (p + 1)..(p + Len(search)) : origins[k] = "m"

\* Whether the loop of lines 196-198 replaces, for some fragment, characters
\* that the replacement of an earlier fragment inserted.
RECURSIVE Rewraps(_, _, _)
Rewraps(s, origins, latexes) ==
    IF latexes = <<>> THEN FALSE
    ELSE LET f == Head(latexes)
             template == SpanTemplate(f)
             positions == MatchPositions(s, f, 0)
         IN  \/ TouchesInserted(s, origins, f)
             \/ Rewraps(ReplaceAll(s, f, template),
                        OriginsAt(s, origins, f, template, positions, 0),
                        Tail(latexes))

\* C8: the markup holds no math-tex span inside a math-tex span, and no
\* replacement of the loop replaced a character that an earlier replacement
\* had inserted.
C8_NoNestedRewrapping ==
    tResult # <<>> =>
        /\ ~NestedSpan(tResult)
        /\ ~Rewraps(tText, [k \in 1..Len(tText) |-> "t"],
                    DistinctLatexes(tLatexes))

\* C9: every step that handles a 2xx response without math_text.data or
\* latex_maths.data leaves the balloon and the field as they are, and a
\* cycle that is done after such a response has raised one alert and has
\* neither added the form nor populated the field, as after a failed OCR
\* request.
C9_MalformedTreatedAsFailed ==
    /\ [][\A c \in Cycles :
             lastOp' = Op("ocrMalformed", c)
                => balloon' = balloon /\ fieldValue' = fieldValue]_vars
    /\ [](\A c \in Cycles :
             (/\ cycles[c].stage = "done"
              /\ \/ cycles[c].failure = "malformed"
                 \/ cycles[c].populated /\ ~WellFormed(cycles[c].body))
                => /\ cycles[c].alerts = 1
                   /\ ~cycles[c].added /\ ~cycles[c].populated)

\* C10: a click while the form is the visible view changes nothing of the
\* form, the requests, the field and the balloon, and an event that hides
\* the form while it is not in the balloon leaves the balloon and the focus
\* as they are.
C10_ShowHideNoOps ==
    [][/\ (lastOp'.name = "click" /\ IsVisible)
            => UNCHANGED <<formCreated, balloon, altText, fieldValue,
                          fieldViewValue, previewHTML, cssTransitions,
                          focus, cycles, nStarted>>
       /\ (lastOp'.name \in HideOps /\ ~IsInBalloon)
            => balloon' = balloon /\ focus' = focus]_vars

\* C10 witness: the button has just been clicked while the form was the
\* visible view, with one request cycle behind it.
C10_Witness ==
    /\ lastOp.name = "click"
    /\ IsVisible
    /\ nStarted = 1
    /\ cycles[1].populated

\* The names of the steps in which a request of a cycle fails.
FailureOps == {"downloadFailed", "ocrFailed"}

\* C11: every request cycle issues at most one GET and at most one POST; a
\* POST has been issued only when the GET was issued before it and did not
\* fail; the POST is issued in the very step that handles the successful
\* download; a step in which a request of a cycle fails issues no request;
\* and a cycle that is done issues no request any more.
C11_SequentialNeverRetried ==
    /\ [](\A c \in Cycles :
             /\ cycles[c].gets <= 1 /\ cycles[c].posts <= 1
             /\ cycles[c].posts = 1
                  => cycles[c].gets = 1 /\ cycles[c].failure # "download"
             /\ cycles[c].stage = "get" => cycles[c].posts = 0)
    /\ [][\A c \in Cycles :
             /\ cycles'[c].posts # cycles[c].posts
                  => /\ lastOp' = Op("downloaded", c)
                     /\ cycles[c].stage = "get" /\ cycles[c].gets = 1
             /\ (lastOp'.name \in FailureOps /\ lastOp'.cycle = c)
                  => /\ cycles'[c].gets = cycles[c].gets
                     /\ cycles'[c].posts = cycles[c].posts
                     /\ cycles'[c].stage = "done"
             /\ cycles[c].stage = "done"
                  => /\ cycles'[c].gets = cycles[c].gets
                     /\ cycles'[c].posts = cycles[c].posts]_vars

\* C11 witness: one cycle failed in its download and sent no POST, the other
\* sent its POST after its download and failed there, and both are done.
C11_Witness ==
    \E c1, c2 \in Cycles :
        /\ cycles[c1].stage = "done" /\ cycles[c1].failure = "download"
        /\ cycles[c1].gets = 1 /\ cycles[c1].posts = 0
        /\ cycles[c2].stage = "done" /\ cycles[c2].failure = "ocr"
        /\ cycles[c2].gets = 1 /\ cycles[c2].posts = 1

\* The names of the steps in which editor.ui fires 'update'.
UpdateOps == {"update", "select", "deselect"}

\* C12: every 'update' event after which no image is selected leaves the
\* form out of the balloon; every 'update' event after which an image is
\* selected and that finds the form the visible view leaves the balloon's
\* stack as it is, with the form still the visible view, leaves the balloon
\* at the image's present position, and leaves the field, the preview and
\* the alt-text as they are.
C12_UpdateHidesOrRepositions ==
    [][lastOp'.name \in UpdateOps
          => /\ ~imageSelected' => ~IsInBalloon'
             /\ (imageSelected' /\ IsVisible)
                  => /\ IsVisible' /\ balloon' = balloon
                     /\ ~positionStale'
                     /\ UNCHANGED <<altText, fieldValue, fieldViewValue,
                                   previewHTML>>]_vars

\* C12 witness: an 'update' event has just been handled with the image
\* selected and the form the visible view, holding typed text.
C12_Witness ==
    /\ lastOp.name = "update"
    /\ imageSelected /\ IsVisible /\ ~positionStale
    /\ fieldValue \in TypedTexts

\* C13: an event that hides the form or moves the selection off the image
\* leaves every request cycle as it is; every step that handles a
\* well-formed OCR response, whether or not an image is selected then, adds
\* the form on top of the balloon if it was not in it and leaves the form in
\* the balloon; and when the handler runs to its end, the transformed
\* response is in the field.
C13_HideDoesNotCancel ==
    [][/\ lastOp'.name \in HideOps => cycles' = cycles
       /\ \A c \in Cycles :
             /\ lastOp' \in {Op("ocrResponse", c), Op("ocrTypesetThrew", c)}
                  => /\ cycles[c].stage = "post"
                     /\ ~IsInBalloon
                          => balloon' = BalloonAdd("form") /\ IsVisible'
                     /\ IsInBalloon'
             /\ lastOp' = Op("ocrResponse", c)
                  => /\ cycles'[c].populated
                     /\ fieldValue' = BodyResult(cycles'[c].body)]_vars

\* C13 witness: a well-formed response has just been handled while no image
\* was selected; its handler added the form, which is the visible view, and
\* the field holds the transformed response.
C13_Witness ==
    \E c \in Cycles :
        /\ lastOp = Op("ocrResponse", c)
        /\ ~imageSelected
        /\ cycles[c].added /\ IsVisible
        /\ fieldValue = BodyResult(cycles[c].body)
        /\ fieldValue # <<>>

\* Whether a request of the cycle is waiting for its response.
InFlight(c) == cycles[c].stage \in {"get", "post"}

\* C14: every click on the enabled button while the form is not the visible
\* view and a request cycle is in flight starts a new cycle with its own
\* download, and leaves the cycles started before as they are.
C14_SecondActivationStartsCycle ==
    [][(/\ lastOp'.name = "click"
        /\ ButtonIsEnabled /\ ~IsVisible
        /\ \E c \in Cycles : InFlight(c))
          => /\ nStarted' = nStarted + 1
             /\ lastOp'.cycle = nStarted'
             /\ cycles'[nStarted'].stage = "get"
             /\ cycles'[nStarted'].gets = 1
             /\ cycles'[nStarted'].url = CommandValue
             /\ \A c \in Cycles \ {nStarted'} : cycles'[c] = cycles[c]]_vars

\* C14 witness: the second activation has just started its download while
\* the first is still in flight and the form is not the visible view.
C14_Witness ==
    /\ lastOp = Op("click", 2)
    /\ InFlight(1) /\ InFlight(2)
    /\ ~IsVisible

\* How often the form is in the balloon's stack.
FormCount == Cardinality({k \in 1..Len(balloon) : balloon[k] = "form"})

\* C15: the balloon never holds the form more than once, and every step
\* that adds the form to the balloon starts in a state where the balloon
\* does not hold it.
C15_FormAddedOnlyWhenAbsent ==
    /\ [](FormCount <= 1)
    /\ [][FormCount' > FormCount => FormCount = 0]_vars

\* C15 witness: a response has just been handled and has populated the
\* field without adding the form, which was in the balloon beneath another
\* view, after an earlier cycle had added it.
C15_Witness ==
    \E c1, c2 \in Cycles :
        /\ lastOp = Op("ocrResponse", c2)
        /\ cycles[c1].added
        /\ cycles[c2].populated /\ ~cycles[c2].added
        /\ VisibleView = "other"
        /\ FormCount = 1

\* C16: every step that changes the image's alt-text is the handling of a
\* submit event.
C16_AltTextWrittenOnlyBySubmit ==
    [][altText' # altText => lastOp'.name = "submit"]_vars

\* C16 witness: a submit has just written the field's content, which a
\* response had put there, into the alt-text.
C16_Witness ==
    /\ lastOp.name = "submit"
    /\ altText # ImageUrl
    /\ altText = fieldValue
    /\ \E c \in Cycles : cycles[c].populated /\ cycles[c].shown = altText

\* C17: a cycle never raises more than one alert; a cycle that is not done
\* has neither populated the field nor raised an alert; a cycle that is done
\* has either populated the field with the transformed response and raised
\* no alert, or raised exactly one alert and not populated the field; and
\* every cycle in flight is eventually done.
C17_ExactlyOneOutcome ==
    /\ [](\A c \in Cycles :
             /\ cycles[c].alerts <= 1
             /\ cycles[c].stage # "done"
                  => ~cycles[c].populated /\ cycles[c].alerts = 0
             /\ cycles[c].stage = "done"
                  => \/ /\ cycles[c].populated /\ cycles[c].alerts = 0
                        /\ cycles[c].shown = BodyResult(cycles[c].body)
                     \/ ~cycles[c].populated /\ cycles[c].alerts = 1)
    /\ \A c \in Cycles : InFlight(c) ~> cycles[c].stage = "done"

\* C17 witness: both cycles are done, one with the field populated and no
\* alert, the other with one alert and no population.
C17_Witness ==
    \E c1, c2 \in Cycles :
        /\ cycles[c1].stage = "done" /\ cycles[c2].stage = "done"
        /\ cycles[c1].populated /\ cycles[c1].alerts = 0
        /\ ~cycles[c2].populated /\ cycles[c2].alerts = 1

\* C18: right after the handler of a well-formed response of a cycle has run
\* to its end, the field holds the transformation of that response,
\* whichever cycle started first and whatever the other cycle has put there;
\* and the field's content changes only when a response is handled or the
\* user types.
C18_LastArrivalWins ==
    /\ [](\A c \in Cycles :
             lastOp = Op("ocrResponse", c)
                => fieldValue = BodyResult(cycles[c].body))
    /\ [][fieldValue' # fieldValue
             => lastOp'.name \in {"ocrResponse", "ocrMalformed", "type"}]_vars

\* C18 witness: the two cycles overlapped and received different well-formed
\* responses; the second activation's response was handled first, the first
\* activation's response has just been handled and the field holds its
\* transformation, not the other's.
C18_Witness ==
    /\ lastOp = Op("ocrResponse", 1)
    /\ cycles[1].populated /\ cycles[2].populated
    /\ WellFormed(cycles[2].body)
    /\ BodyResult(cycles[1].body) # BodyResult(cycles[2].body)
    /\ fieldValue = BodyResult(cycles[1].body)

=============================================================================
